---- MODULE Spec2Model ----
(***************************************************************************)
(* Progressive blur: the WebGL2 blur worker (fragment shader, the two      *)
(* render passes, the message handler) and the App that drives it.         *)
(*                                                                         *)
(* Numbers.  startPoint and endPoint are kept in tenths (the range slider  *)
(* moves in steps of 0.1), a row's normalized coordinate v_texCoord.y is   *)
(* the rational (2*row+1)/(2*height) of the pixel centre, and the shader's *)
(* float arithmetic is carried out exactly on rationals.  A colour channel *)
(* is the byte 0..255 stored in an RGBA8 texture.  exp() is a fixed-point  *)
(* approximation (ExpScale).  A float division by zero has an unspecified  *)
(* result in GLSL ES 3.00: it is a choice among DivZeroOutcomes.           *)
(***************************************************************************)
EXTENDS Integers, Sequences, FiniteSets, TLC

\* ------------------------------------------------------------------ bounds
MaxWidth == 2
MaxHeight == 2
MaxSmallKernel == 3
MaxPending == 2
MaxInFlight == 2
NumImages == 2
NumWindowSizes == 2
MaxResolverHeight == 5
MaxResolverKernel == 4

\* --------------------------------------------------------- program constants
\* A loop limit one below the radius of a kernel of size 499.
MAX_RADIUS_small == (499 - 1) \div 2 - 1

\* const int MAX_RADIUS = 1000;
MAX_RADIUS == 1000
SliderMin == 1
SliderMax == 499
ExpScale == 1000

\* ------------------------------------------------------------- value sets
\* The easing names in alphabetical order.
EasingNames_sorted == <<"easeIn", "easeInOut", "easeOut", "linear">>

\* Object.keys(easingMap): the keys in the order the literal lists them.
EasingNames == <<"linear", "easeIn", "easeOut", "easeInOut">>
BlurTypes == {"none", "linear", "gaussian"}
Points == {0, 5, 10}
SmallKernelSizes == 0..MaxSmallKernel
LargeKernelSizes == {SliderMax, SliderMax + 1}
KernelSizes == SmallKernelSizes \cup LargeKernelSizes
Colors == {<<255, 0, 0, 255>>, <<0, 0, 255, 128>>}

RECURSIVE Flatten(_)
Flatten(pixels) ==
  IF pixels = <<>> THEN <<>> ELSE Head(pixels) \o Flatten(Tail(pixels))

\* The RGBA8 buffers getImageData hands over for a width x height canvas:
\* the images of one colour and those with a single pixel of another colour.
ImageDatas(width, height) ==
  {Flatten([i \in 1..(width * height) |-> IF i = k THEN a ELSE b]) :
     k \in 0..(width * height), a \in Colors, b \in Colors}

ConfigsOf(sizes) ==
  [enabled : BOOLEAN, startPoint : Points, endPoint : Points,
   maxKernelSize : sizes, easing : {EasingNames[i] : i \in 1..4},
   blurType : BlurTypes]
Configs == ConfigsOf(KernelSizes)

\* Valid configs in the sense of the data model.
ValidConfig(config) ==
  /\ config.startPoint <= config.endPoint
  /\ config.maxKernelSize \in SliderMin..SliderMax

\* ------------------------------------------------------------- the shader
easingMap == [linear |-> 0, easeIn |-> 1, easeOut |-> 2, easeInOut |-> 3]
blurTypeMap == [linear |-> 0, gaussian |-> 1]

\* gl.uniform1i(uBlurType, blurTypeMap[config.blurType]): a key the map
\* lacks gives undefined, which the GLint conversion turns into 0.
uBlurType(config) ==
  IF config.blurType \in DOMAIN blurTypeMap THEN blurTypeMap[config.blurType]
  ELSE 0

uEasing(config) == easingMap[config.easing]

\* A float of the shader: NaN, or the rational n/d with d > 0.
Rat(n, d) == [nan |-> FALSE, n |-> n, d |-> d]
NaN == [nan |-> TRUE, n |-> 0, d |-> 1]
DivZeroOutcomes == {NaN, Rat(0, 1), Rat(1, 1)}

\* float easingFunc(float x)
easingFunc(x, u_easing) ==
  IF x.nan THEN NaN
  ELSE IF u_easing = 0 THEN x
  ELSE IF u_easing = 1 THEN Rat(x.n * x.n * (2 * x.n - x.d), x.d * x.d * x.d)
  ELSE IF u_easing = 2 THEN Rat(x.n * (2 * x.d - x.n), x.d * x.d)
  ELSE IF 2 * x.n < x.d THEN Rat(2 * x.n * x.n, x.d * x.d)
  ELSE Rat((4 * x.d - 2 * x.n) * x.n - x.d * x.d, x.d * x.d)

\* rangeProgress = (normalizedY - u_startPoint) / (u_endPoint - u_startPoint)
\* for the row whose centre is (2*row+1)/(2*height); points are in tenths.
rangeProgress(row, height, config, divZero) ==
  IF config.endPoint = config.startPoint THEN divZero
  ELSE Rat(10 * (2 * row + 1) - 2 * height * config.startPoint,
           2 * height * (config.endPoint - config.startPoint))

\* kernelSize with the results of the two outer branches exchanged.
kernelSize_swapped(row, height, config, divZero) ==
  IF 10 * (2 * row + 1) < 2 * height * config.startPoint
    THEN Rat(config.maxKernelSize, 1)
  ELSE IF 10 * (2 * row + 1) > 2 * height * config.endPoint THEN Rat(0, 1)
  ELSE
    LET easedProgress ==
          easingFunc(rangeProgress(row, height, config, divZero), uEasing(config))
    IN IF easedProgress.nan THEN NaN
       ELSE LET floored == (easedProgress.n * config.maxKernelSize) \div easedProgress.d
            IN IF floored % 2 = 0 THEN Rat(floored + 1, 1) ELSE Rat(floored, 1)

\* The kernelSize the shader's main() computes for a row (lines 177-191).
kernelSize(row, height, config, divZero) ==
  IF 10 * (2 * row + 1) < 2 * height * config.startPoint THEN Rat(0, 1)
  ELSE IF 10 * (2 * row + 1) > 2 * height * config.endPoint
    THEN Rat(config.maxKernelSize, 1)
  ELSE
    LET easedProgress ==
          easingFunc(rangeProgress(row, height, config, divZero), uEasing(config))
    IN IF easedProgress.nan THEN NaN
       ELSE LET floored == (easedProgress.n * config.maxKernelSize) \div easedProgress.d
            IN IF floored % 2 = 0 THEN Rat(floored + 1, 1) ELSE Rat(floored, 1)

\* int effectiveRadius = int((kernelSize - 1.0) / 2.0), for kernelSize >= 1
effectiveRadius(ks) == (ks - 1) \div 2

\* exp(-x) in fixed point: x and the result are scaled by ExpScale.
Sq(a) == (a * a) \div ExpScale
ExpNeg(xs) ==
  LET y == xs \div 16
      e == ExpScale - y + (y * y) \div (2 * ExpScale)
             - (y * y * y) \div (6 * ExpScale * ExpScale)
  IN Sq(Sq(Sq(Sq(e))))

\* The weight of offset i, as a numerator over a denominator common to the
\* whole kernel (kernelSize for linear, ExpScale for gaussian):
\*   linear 1/kernelSize, gaussian exp(-0.5*(i/sigma)^2), sigma = kernelSize/6
weight(i, ks, u_blurType) ==
  IF u_blurType = 0 THEN 1
  ELSE ExpNeg((18 * i * i * ExpScale) \div (ks * ks))

Clamp(v, lo, hi) == IF v < lo THEN lo ELSE IF v > hi THEN hi ELSE v

\* texture(u_image, uv) at a texel centre, CLAMP_TO_EDGE on both axes.
texture(tex, width, height, x, y, c) ==
  tex[(Clamp(y, 0, height - 1) * width + Clamp(x, 0, width - 1)) * 4 + c + 1]

RECURSIVE SumOver(_, _, _)
SumOver(f, lo, hi) ==
  IF lo > hi THEN 0
  ELSE IF lo = hi THEN f[lo]
  ELSE LET mid == (lo + hi) \div 2
       IN SumOver(f, lo, mid) + SumOver(f, mid + 1, hi)

\* The offsets i of the loop that pass `if(i < -effectiveRadius ||
\* i > effectiveRadius) continue;`, for kernelSize ks >= 1.
loopLo(ks) == -Clamp(effectiveRadius(ks), 0, MAX_RADIUS)
loopHi(ks) == Clamp(effectiveRadius(ks), 0, MAX_RADIUS)

\* The weights the loop multiplies the samples with, by offset.
weights(ks, u_blurType) ==
  [i \in loopLo(ks)..loopHi(ks) |-> weight(i, ks, u_blurType)]

\* The denominator of the weights: 1.0 on that scale.
weightSum_unit(ks, u_blurType) == IF u_blurType = 0 THEN ks ELSE ExpScale

\* weightSum after the loop: the sum of the weights of the sampled offsets.
weightSum(ks, u_blurType) ==
  SumOver(weights(ks, u_blurType), loopLo(ks), loopHi(ks))

\* vec4 outColor of the fragment (x, y), as the four bytes the RGBA8
\* attachment stores; a NaN colour stores nanByte.
fragment(tex, direction, width, height, config, x, y, divZero, nanByte) ==
  LET ks == kernelSize(y, height, config, divZero)
  IN IF ks.nan THEN [c \in 1..4 |-> nanByte]
     ELSE IF ks.n < 1
       THEN [c \in 1..4 |-> texture(tex, width, height, x, y, c - 1)]
     ELSE
       LET lo == loopLo(ks.n)
           hi == loopHi(ks.n)
           w == weights(ks.n, uBlurType(config))
           ws == weightSum(ks.n, uBlurType(config))
       IN [c \in 1..4 |->
             LET wc == [i \in lo..hi |->
                          w[i] * texture(tex, width, height,
                                         x + i * direction[1],
                                         y + i * direction[2], c - 1)]
                 color == SumOver(wc, lo, hi)
             IN Clamp((2 * color + ws) \div (2 * ws), 0, 255)]

\* renderPass: draws every fragment of the width x height viewport.
renderPass(inputTex, direction, width, height, config, divZero, nanByte) ==
  Flatten([p \in 1..(width * height) |->
             fragment(inputTex, direction, width, height, config,
                      (p - 1) % width, (p - 1) \div width, divZero, nanByte)])

\* ------------------------------------------------------------ the worker
VARIABLES inbox, pc, req, originalTex, tempTex, finalTex, kernels, outbox,
          handled

\* ----------------------------------------------------------------- the App
VARIABLES blurConfig, currentImage, windowSize, pendingLoads, inFlight

\* ------------------------------------------------ the resolver on its own
\* viewport: the height and the config uniforms of a draw call; scanlines:
\* what main() computed for the rows resolved so far, top row first.
VARIABLES viewport, scanlines

resolverVars == <<viewport, scanlines>>
workerVars ==
  <<inbox, pc, req, originalTex, tempTex, finalTex, kernels, outbox, handled>>
appVars == <<blurConfig, currentImage, windowSize, pendingLoads, inFlight>>
vars == <<workerVars, appVars, resolverVars>>

NoMsg == [type |-> "none"]

\* interface WorkerMessage: what a caller can post to the worker.  Images of
\* every size up to MaxWidth x MaxHeight go with the small kernel sizes, the
\* one-pixel images also with the sizes at the end of the slider's range.
MessagesOf(w, h, sizes) ==
  [type : {"process"}, imageData : ImageDatas(w, h), width : {w},
   height : {h}, config : ConfigsOf(sizes)]
ProcessMessages ==
  UNION ({MessagesOf(w, h, SmallKernelSizes) :
           w \in 0..MaxWidth, h \in 0..MaxHeight}
         \cup {MessagesOf(1, 1, LargeKernelSizes)})
WorkerMessages == ProcessMessages \cup {[type |-> "getEasings"]}

\* createEmptyTexture: texImage2D with null data gives zeroed texels.
createEmptyTexture(width, height) == [idx \in 1..(width * height * 4) |-> 0]

\* createTexture: the texels are the bytes of the image data.
createTexture(width, height, data) == data

\* processBlurGPU without its short-circuit.
shortCircuit_never(config) == FALSE

\* if (!config.enabled) return imageData;
shortCircuit(config) == ~config.enabled

\* A read-back buffer of three bytes per pixel.
pixelsLength_rgb(width, height) == width * height * 3

\* new Uint8Array(width * height * 4)
pixelsLength(width, height) == width * height * 4

\* The rows of the request on which the ramp divides by zero.
DivZeroRow(row, height, config) ==
  /\ config.endPoint = config.startPoint
  /\ 10 * (2 * row + 1) = 2 * height * config.startPoint

HasDivZero(m) ==
  /\ m.type = "process"
  /\ \E row \in 0..(m.height - 1) : DivZeroRow(row, m.height, m.config)

DivOutcomes(m) == IF HasDivZero(m) THEN DivZeroOutcomes ELSE {NaN}

\* What writing a NaN colour to an RGBA8 attachment can store.
NaNBytes == {0, 255}
NaNWrites(m) == IF HasDivZero(m) THEN NaNBytes ELSE {0}

\* A catch block that posts the buffer it was given.
catchPosts_partial(m) ==
  <<[type |-> "processed", processedData |-> m.imageData]>>

\* catch (err) { console.error("Blur processing failed:", err); }
\* the messages the catch block posts for the request m: none.
catchPosts(m) == <<>>

\* How a handler run ended: the number of messages it posted and whether it
\* returned at the guard ("skipped"), caught an exception ("threw") or
\* finished ("ok").
Done(type, posted, outcome) ==
  [type |-> type, posted |-> posted, outcome |-> outcome]

WorkerIdleUnchanged ==
  UNCHANGED <<pc, originalTex, tempTex, finalTex, kernels>>

\* The caller posts one message at a time, once the previous one is handled
\* and its answer taken.
CanPost == pc = "idle" /\ inbox = <<>> /\ outbox = <<>>

\* A caller posts a message to the worker.  req is the e.data of the message
\* the handler is working on or has last answered, until the caller takes an
\* answer from an idle worker; handled tells how the handler dealt with the
\* latest message it took after an idle post.
PostMessage(m) ==
  /\ CanPost
  /\ inbox' = <<m>>
  /\ handled' = Done("none", 0, "ok")
  /\ UNCHANGED <<pc, req, originalTex, tempTex, finalTex, kernels, outbox,
                 appVars, resolverVars>>

\* self.onmessage, case 'getEasings'
OnGetEasings ==
  /\ pc = "idle" /\ inbox # <<>> /\ Head(inbox).type = "getEasings"
  /\ inbox' = Tail(inbox)
  /\ req' = Head(inbox)
  /\ outbox' = Append(outbox, [type |-> "easings", easings |-> EasingNames])
  /\ handled' = Done("getEasings", 1, "ok")
  /\ WorkerIdleUnchanged
  /\ UNCHANGED <<appVars, resolverVars>>

\* self.onmessage, case 'process', up to the first render pass:
\* the guard on the message fields, processBlurGPU's short-circuit, the
\* WebGL2 context (glOk: whether the environment provides one), the textures.
OnProcess(glOk) ==
  /\ pc = "idle" /\ inbox # <<>> /\ Head(inbox).type = "process"
  /\ LET m == Head(inbox)
     IN /\ inbox' = Tail(inbox)
        /\ IF m.width = 0 \/ m.height = 0
           THEN /\ handled' = Done("process", 0, "skipped")
                /\ req' = NoMsg
                /\ UNCHANGED outbox
                /\ WorkerIdleUnchanged
           ELSE IF shortCircuit(m.config)
           THEN /\ outbox' = Append(outbox, [type |-> "processed",
                                             processedData |-> m.imageData])
                /\ handled' = Done("process", 1, "ok")
                /\ req' = m
                /\ WorkerIdleUnchanged
           ELSE IF ~glOk
           THEN /\ outbox' = outbox \o catchPosts(m)
                /\ handled' = Done("process", Len(catchPosts(m)), "threw")
                /\ req' = NoMsg
                /\ WorkerIdleUnchanged
           ELSE /\ pc' = "pass1"
                /\ req' = m
                /\ originalTex' = createTexture(m.width, m.height, m.imageData)
                /\ tempTex' = createEmptyTexture(m.width, m.height)
                /\ finalTex' = createEmptyTexture(m.width, m.height)
                /\ UNCHANGED <<kernels, outbox, handled>>
  /\ UNCHANGED <<appVars, resolverVars>>

\* The kernel sizes the shader resolves for the rows of one pass.
resolved(m, divZero) ==
  [r \in 1..m.height |-> kernelSize(r - 1, m.height, m.config, divZero)]

\* The second pass drawn from the source texture.
pass2Input_source == originalTex

\* The inputTex argument of the two renderPass calls (lines 371 and 376).
pass1Input == originalTex
pass2Input == tempTex

\* Pass 1: horizontal blur of originalTex into tempTex.
Pass1(divZero, nanByte) ==
  /\ pc = "pass1"
  /\ tempTex' = renderPass(pass1Input, <<1, 0>>, req.width, req.height,
                           req.config, divZero, nanByte)
  /\ kernels' = resolved(req, divZero)
  /\ pc' = "pass2"
  /\ UNCHANGED <<inbox, req, originalTex, finalTex, outbox, handled, appVars, resolverVars>>

\* Pass 2: vertical blur of tempTex into finalTex.
Pass2(divZero, nanByte) ==
  /\ pc = "pass2"
  /\ finalTex' = renderPass(pass2Input, <<0, 1>>, req.width, req.height,
                            req.config, divZero, nanByte)
  /\ kernels' = resolved(req, divZero)
  /\ pc' = "read"
  /\ UNCHANGED <<inbox, req, originalTex, tempTex, outbox, handled, appVars, resolverVars>>

\* A handler that posts the result only if no newer message is waiting.
postsResult_unlessSuperseded(queue) == queue = <<>>

\* self.postMessage({ type: 'processed', processedData }) is the statement
\* after the await: it does not look at the messages that arrived meanwhile.
postsResult(queue) == TRUE

\* readPixels from finalTex, cleanup, and the 'processed' message.
ReadPixels ==
  /\ pc = "read"
  /\ outbox' =
       IF postsResult(inbox)
       THEN Append(outbox,
              [type |-> "processed",
               processedData |-> [idx \in 1..pixelsLength(req.width, req.height) |->
                                    finalTex[idx]]])
       ELSE outbox
  /\ handled' = Done("process", IF postsResult(inbox) THEN 1 ELSE 0, "ok")
  /\ pc' = "idle"
  /\ originalTex' = <<>> /\ tempTex' = <<>> /\ finalTex' = <<>>
  /\ kernels' = <<>>
  /\ UNCHANGED <<inbox, req, appVars, resolverVars>>

\* The configs a change of the blur-type tab made while a request is
\* outstanding sends along with the same image (Tabs onValueChange).
SupersedingConfigs(config) ==
  {[config EXCEPT !.blurType = value, !.enabled = (value # "none")] :
     value \in BlurTypes \ {config.blurType}}

\* A second 'process' request, for the same image with a changed config,
\* arrives while the handler works on req: the event loop queues it until
\* the running handler has returned.
Busy == pc \in {"pass1", "pass2", "read"}
PostWhileBusy(config) ==
  /\ Busy
  /\ inbox = <<>>
  /\ outbox = <<>>
  /\ inbox' = <<[req EXCEPT !.config = config]>>
  /\ UNCHANGED <<pc, req, originalTex, tempTex, finalTex, kernels, outbox,
                 handled, appVars, resolverVars>>

\* The caller's onmessage takes the worker's message.
Receive ==
  /\ outbox # <<>>
  /\ outbox' = Tail(outbox)
  /\ req' = IF pc = "idle" THEN NoMsg ELSE req
  /\ UNCHANGED <<inbox, pc, originalTex, tempTex, finalTex, kernels,
                 handled, appVars, resolverVars>>

\* ----------------------------------------------------------------- the App
\* A JavaScript number held in blurConfig.maxKernelSize: an integer or NaN.
Num(v) == [nan |-> FALSE, v |-> v]
NumNaN == [nan |-> TRUE, v |-> 0]

InitialConfig ==
  [enabled |-> TRUE, startPoint |-> 3, endPoint |-> 10,
   maxKernelSize |-> Num(299), easing |-> "easeInOut", blurType |-> "gaussian"]

\* e.target.value of the number input: the empty string when the field does
\* not hold a number, else the typed number.
Digits == <<"0", "1", "2", "3", "4", "5", "6", "7", "8", "9">>
IsDigit(ch) == \E k \in 1..10 : Digits[k] = ch
DigitValue(ch) == (CHOOSE k \in 1..10 : Digits[k] = ch) - 1
TypedTexts ==
  {<<>>, <<"0">>, <<"1">>, <<"4">>, <<"7">>, <<"2", ".", "5">>, <<"-", "3">>,
   <<"-", "4">>, <<"2", "5", "0">>, <<"4", "9", "9">>, <<"5", "0", "0">>}

RECURSIVE ParseDigits(_, _)
ParseDigits(text, acc) ==
  IF text = <<>> \/ ~IsDigit(Head(text)) THEN acc
  ELSE ParseDigits(Tail(text), 10 * acc + DigitValue(Head(text)))

\* parseInt(text): an optional sign, then the leading digits; NaN without any.
parseInt(text) ==
  LET neg == text # <<>> /\ Head(text) = "-"
      body == IF neg THEN Tail(text) ELSE text
  IN IF body = <<>> \/ ~IsDigit(Head(body)) THEN NumNaN
     ELSE Num((IF neg THEN -1 ELSE 1) * ParseDigits(body, 0))

\* if (blurConfig.blurType === "gaussian" && value % 2 === 0) value = value - 1
forceOdd(value, blurType) ==
  IF blurType = "gaussian" /\ ~value.nan /\ value.v % 2 = 0
  THEN Num(value.v - 1) ELSE value

\* The values the kernel slider can report: min 1, max 499, step 2 for
\* gaussian and 1 otherwise.
SliderSamples == {1, 2, 3, 4, 250, 298, 299, 498, 499}
SliderStep(blurType) == IF blurType = "gaussian" THEN 2 ELSE 1
SliderValues(blurType) ==
  {v \in SliderSamples : (v - SliderMin) % SliderStep(blurType) = 0}

\* The range slider reports its two thumbs in order, in steps of 0.1.
AppPoints == {0, 3, 5, 10}
RangeValues == {<<a, b>> \in AppPoints \X AppPoints : a <= b}

\* The draw effect (App.tsx 63-130) after a render with a changed dependency:
\* with an image selected it starts loading a new Image whose onload will
\* call processImage.
CanRender == pendingLoads < MaxPending
DrawEffect(image) ==
  pendingLoads' = IF image = 0 THEN pendingLoads ELSE pendingLoads + 1

isBlurEnabled == blurConfig.blurType # "none"

\* A tab handler that leaves enabled on.
enabledFor_always(newBlurType) == TRUE

\* enabled: newBlurType !== "none"
enabledFor(newBlurType) == newBlurType # "none"

\* Tabs onValueChange
TabsOnValueChange(value) ==
  /\ CanRender
  /\ value # blurConfig.blurType
  /\ blurConfig' = [blurConfig EXCEPT !.blurType = value,
                                      !.enabled = enabledFor(value)]
  /\ DrawEffect(currentImage)
  /\ UNCHANGED <<currentImage, windowSize, inFlight, workerVars, resolverVars>>

\* onChange of the Max Kernel Size number input
KernelInputOnChange(text) ==
  /\ CanRender
  /\ isBlurEnabled
  /\ blurConfig' = [blurConfig EXCEPT
                      !.maxKernelSize = forceOdd(parseInt(text), blurConfig.blurType)]
  /\ DrawEffect(currentImage)
  /\ UNCHANGED <<currentImage, windowSize, inFlight, workerVars, resolverVars>>

\* onValueChange of the Max Kernel Size slider
KernelSliderOnValueChange(value) ==
  /\ CanRender
  /\ isBlurEnabled
  /\ value \in SliderValues(blurConfig.blurType)
  /\ blurConfig' = [blurConfig EXCEPT
                      !.maxKernelSize = forceOdd(Num(value), blurConfig.blurType)]
  /\ DrawEffect(currentImage)
  /\ UNCHANGED <<currentImage, windowSize, inFlight, workerVars, resolverVars>>

\* onValueChange of the Blur Range slider
RangeSliderOnValueChange(values) ==
  /\ CanRender
  /\ isBlurEnabled
  /\ values # <<blurConfig.startPoint, blurConfig.endPoint>>
  /\ blurConfig' = [blurConfig EXCEPT !.startPoint = values[1],
                                      !.endPoint = values[2]]
  /\ DrawEffect(currentImage)
  /\ UNCHANGED <<currentImage, windowSize, inFlight, workerVars, resolverVars>>

\* onValueChange of the easing Select
EasingOnValueChange(value) ==
  /\ CanRender
  /\ isBlurEnabled
  /\ value # blurConfig.easing
  /\ blurConfig' = [blurConfig EXCEPT !.easing = value]
  /\ DrawEffect(currentImage)
  /\ UNCHANGED <<currentImage, windowSize, inFlight, workerVars, resolverVars>>

\* handleResize
handleResize(size) ==
  /\ CanRender
  /\ windowSize' = size
  /\ DrawEffect(currentImage)
  /\ UNCHANGED <<blurConfig, currentImage, inFlight, workerVars, resolverVars>>

\* handleSelectBuiltInImage / handleFileUpload: setCurrentImage(imageSrc);
\* the upload interface is shown while no image is selected.
handleSelectBuiltInImage(imageSrc) ==
  /\ CanRender
  /\ currentImage = 0
  /\ currentImage' = imageSrc
  /\ DrawEffect(imageSrc)
  /\ UNCHANGED <<blurConfig, windowSize, inFlight, workerVars, resolverVars>>

\* handleClearImage: the clear button is shown while an image is selected.
handleClearImage ==
  /\ currentImage # 0
  /\ currentImage' = 0
  /\ DrawEffect(0)
  /\ UNCHANGED <<blurConfig, windowSize, inFlight, workerVars, resolverVars>>

\* The hook's processImage(ctx, canvas): reads the canvas and submits it with
\* the config to the worker; the call is outstanding until the worker's
\* 'processed' message comes back.
processImage == inFlight' = inFlight + 1

\* img.onload: draws the image, then awaits processImage(ctx, canvas).
ImgOnload ==
  /\ pendingLoads > 0
  /\ inFlight < MaxInFlight
  /\ pendingLoads' = pendingLoads - 1
  /\ processImage
  /\ UNCHANGED <<blurConfig, currentImage, windowSize, workerVars, resolverVars>>

\* The worker's 'processed' message arrives and processImage returns.
ProcessImageReturns ==
  /\ inFlight > 0
  /\ inFlight' = inFlight - 1
  /\ UNCHANGED <<blurConfig, currentImage, windowSize, pendingLoads, workerVars, resolverVars>>

InitIdle ==
  /\ inbox = <<>> /\ pc = "idle" /\ req = NoMsg
  /\ originalTex = <<>> /\ tempTex = <<>> /\ finalTex = <<>>
  /\ kernels = <<>> /\ outbox = <<>>
  /\ handled = Done("none", 0, "ok")
  /\ blurConfig = InitialConfig
  /\ currentImage = 0
  /\ windowSize = 0
  /\ pendingLoads = 0
  /\ inFlight = 0

NoViewport == [height |-> 0]

Init ==
  /\ InitIdle
  /\ viewport = NoViewport
  /\ scanlines = <<>>

Next ==
  \/ CanPost /\ \E m \in WorkerMessages : PostMessage(m)
  \/ OnGetEasings
  \/ \E glOk \in BOOLEAN : OnProcess(glOk)
  \/ \E divZero \in DivOutcomes(req), nanByte \in NaNWrites(req) : Pass1(divZero, nanByte)
  \/ \E divZero \in DivOutcomes(req), nanByte \in NaNWrites(req) : Pass2(divZero, nanByte)
  \/ ReadPixels
  \/ Receive

Spec == Init /\ [][Next]_vars

\* The messages of a caller whose canvas is one pixel wide.
QueueMessages ==
  UNION {MessagesOf(1, h, SmallKernelSizes) : h \in 1..MaxHeight}
    \cup {[type |-> "getEasings"]}

\* The worker with a caller that also posts while a request is outstanding.
NextQueue ==
  \/ CanPost /\ \E m \in QueueMessages : PostMessage(m)
  \/ Busy /\ \E config \in SupersedingConfigs(req.config) : PostWhileBusy(config)
  \/ OnGetEasings
  \/ \E glOk \in BOOLEAN : OnProcess(glOk)
  \/ \E divZero \in DivOutcomes(req), nanByte \in NaNWrites(req) : Pass1(divZero, nanByte)
  \/ \E divZero \in DivOutcomes(req), nanByte \in NaNWrites(req) : Pass2(divZero, nanByte)
  \/ ReadPixels
  \/ Receive

SpecQueue == Init /\ [][NextQueue]_vars

\* The draw calls the resolver is run on: every band in tenths, heights up
\* to MaxResolverHeight, the small sizes and the sizes around the slider's
\* maximum.
ResolverPoints == 0..10
ResolverKernelSizes ==
  (0..MaxResolverKernel) \cup {SliderMax - 1, SliderMax, SliderMax + 1}
ResolverConfigs ==
  [enabled : {TRUE}, startPoint : ResolverPoints, endPoint : ResolverPoints,
   maxKernelSize : ResolverKernelSizes, easing : {EasingNames[i] : i \in 1..4},
   blurType : {"linear", "gaussian"}]
Viewports == [height : 1..MaxResolverHeight, config : ResolverConfigs]

\* What main() computes for a row before it samples (lines 177-203):
\* whether the row took the ramp branch, and there rangeProgress and
\* easedProgress (zero on the other branches), the kernelSize, and for a
\* kernelSize of at least 1 the effectiveRadius and the first and last
\* offset the loop samples (zero otherwise).
scanline(row, height, config, divZero) ==
  LET ks == kernelSize(row, height, config, divZero)
      sampled == ~ks.nan /\ ks.n >= 1
      inBand == /\ ~(10 * (2 * row + 1) < 2 * height * config.startPoint)
                /\ ~(10 * (2 * row + 1) > 2 * height * config.endPoint)
      t == IF inBand THEN rangeProgress(row, height, config, divZero)
           ELSE Rat(0, 1)
  IN [inBand |-> inBand,
      rangeProgress |-> t,
      easedProgress |-> IF inBand THEN easingFunc(t, uEasing(config))
                        ELSE Rat(0, 1),
      kernelSize |-> ks,
      effectiveRadius |-> IF sampled THEN effectiveRadius(ks.n) ELSE 0,
      loop |-> IF sampled THEN <<loopLo(ks.n), loopHi(ks.n)>> ELSE <<0, 0>>]

RowDivOutcomes(row, height, config) ==
  IF DivZeroRow(row, height, config) THEN DivZeroOutcomes ELSE {NaN}

\* main() up to kernelSize for the next row of the viewport.
ResolveRow(divZero) ==
  /\ Len(scanlines) < viewport.height
  /\ scanlines' = Append(scanlines,
                         scanline(Len(scanlines), viewport.height,
                                  viewport.config, divZero))
  /\ UNCHANGED <<viewport, workerVars, appVars>>

InitResolver ==
  /\ InitIdle
  /\ viewport \in Viewports
  /\ scanlines = <<>>

NextResolver ==
  \E divZero \in RowDivOutcomes(Len(scanlines), viewport.height,
                                viewport.config) : ResolveRow(divZero)

SpecResolver == InitResolver /\ [][NextResolver]_vars

NextApp ==
  \/ \E value \in BlurTypes : TabsOnValueChange(value)
  \/ \E text \in TypedTexts : KernelInputOnChange(text)
  \/ \E value \in SliderSamples : KernelSliderOnValueChange(value)
  \/ \E values \in RangeValues : RangeSliderOnValueChange(values)
  \/ \E i \in 1..4 : EasingOnValueChange(EasingNames[i])
  \/ \E size \in 0..(NumWindowSizes - 1) : handleResize(size)
  \/ \E imageSrc \in 1..NumImages : handleSelectBuiltInImage(imageSrc)
  \/ handleClearImage
  \/ ImgOnload
  \/ ProcessImageReturns

SpecApp == Init /\ [][NextApp]_vars

\* ------------------------------------------------------------- properties
\* The request being handled is a 'process' request with a non-empty image.
Processing == req.type = "process" /\ req.width > 0 /\ req.height > 0

\* A pass of the request in req has been drawn.
AfterPass1 == pc \in {"pass2", "read"}
AfterPass2 == pc = "read"

\* The worker's answer to req is waiting in outbox.
Answered ==
  Processing /\ outbox # <<>> /\ Head(outbox).type = "processed"

Rows == 0..(req.height - 1)
RowBelowStart(row) == 10 * (2 * row + 1) < 2 * req.height * req.config.startPoint
RowAboveEnd(row) == 10 * (2 * row + 1) > 2 * req.height * req.config.endPoint

\* The bytes of row `row` in a width x height RGBA8 buffer.
RowBytes(row) ==
  (row * req.width * 4 + 1)..((row + 1) * req.width * 4)

OddUp(k) == IF k % 2 = 0 THEN k + 1 ELSE k

IsUniform(data) ==
  \A i \in 1..Len(data) : data[i] = data[((i - 1) % 4) + 1]

\* C1: for every config and every row whose normalized y is strictly below
\* startPoint, the resolved kernel size is 0 and each pass copies the row:
\* tempTex holds originalTex's bytes after pass 1, finalTex holds tempTex's
\* bytes after pass 2.
C1_PassthroughBelowStart ==
  /\ AfterPass1 =>
       \A row \in Rows : RowBelowStart(row) =>
         /\ kernels[row + 1] = Rat(0, 1)
         /\ \A idx \in RowBytes(row) : tempTex[idx] = originalTex[idx]
  /\ AfterPass2 =>
       \A row \in Rows : RowBelowStart(row) =>
         \A idx \in RowBytes(row) : finalTex[idx] = tempTex[idx]

\* C1 witness: both passes are drawn, a row lies below startPoint and the
\* passes did blur the rest of the image.
C1_Witness ==
  /\ AfterPass2
  /\ \E row \in Rows : RowBelowStart(row)
  /\ finalTex # originalTex

\* C2: for every valid config and every row whose normalized y is strictly
\* above endPoint, the resolved kernel size is maxKernelSize rounded up to
\* the next odd integer.
C2_OddUpAboveEnd ==
  (AfterPass1 /\ ValidConfig(req.config)) =>
    \A row \in Rows : RowAboveEnd(row) =>
      kernels[row + 1] = Rat(OddUp(req.config.maxKernelSize), 1)

\* C3: for every valid config and every row on which blur is active (kernel
\* size >= 1), the resolved kernel size is an odd integer.
C3_ActiveKernelOdd ==
  (AfterPass1 /\ ValidConfig(req.config)) =>
    \A row \in Rows :
      (~kernels[row + 1].nan /\ kernels[row + 1].n >= 1) =>
        kernels[row + 1].n % 2 = 1

\* C4: with config.enabled false processBlurGPU runs no pass and the
\* 'processed' message carries exactly the input buffer.
C4_DisabledReturnsInput ==
  (Processing /\ ~req.config.enabled) =>
    /\ pc = "idle"
    /\ handled = Done("process", 1, "ok")
    /\ outbox = <<[type |-> "processed", processedData |-> req.imageData]>>

\* C4 witness: a disabled request for a two-coloured image, whose kernel
\* would have blurred it, has been answered.
C4_Witness ==
  /\ Answered
  /\ ~req.config.enabled
  /\ req.config.blurType = "linear"
  /\ req.config.maxKernelSize = 3
  /\ ~IsUniform(req.imageData)

\* C5: with config.blurType none the engine returns the input buffer
\* unchanged whatever config.enabled is (stated for the bands with
\* startPoint < endPoint, on which the ramp never divides by zero).
C5_NoneReturnsInput ==
  (/\ Answered
   /\ req.config.blurType = "none"
   /\ req.config.startPoint < req.config.endPoint) =>
    Head(outbox).processedData = req.imageData

\* C6: a request whose maxKernelSize is outside 1..499 is rejected before any
\* pass runs and no processed buffer is delivered (stated for the requests
\* with blur enabled, which reach the passes).
C6_InvalidKernelRejected ==
  (/\ Processing
   /\ req.config.enabled
   /\ req.config.maxKernelSize \notin SliderMin..SliderMax) =>
    /\ pc = "idle"
    /\ ~Answered

\* C7: every 'process' request that gets past the handler's guard is
\* answered with exactly one message, a processed buffer or an error, also
\* when the WebGL2 context cannot be acquired.
C7_ExactlyOneAnswer ==
  (handled.type = "process" /\ handled.outcome # "skipped") =>
    handled.posted = 1

\* C8: at most one processImage call per canvas is outstanding at any time.
C8_AtMostOneInFlight == inFlight <= 1

\* C9: for every valid config and every image of positive width and height
\* the processed buffer has width*height*4 bytes.
C9_OutputSize ==
  (Answered /\ ValidConfig(req.config)) =>
    Len(Head(outbox).processedData) = req.width * req.height * 4

\* C9 witness: the two passes ran on an image of more than one pixel and
\* the read-back buffer has been posted.
C9_Witness ==
  /\ Answered
  /\ ValidConfig(req.config)
  /\ req.config.enabled
  /\ req.width * req.height > 1

\* C10: for every valid config, blurring an image whose pixels all have the
\* same RGBA value returns that value at every pixel.
C10_UniformFixedPoint ==
  (Answered /\ ValidConfig(req.config) /\ IsUniform(req.imageData)) =>
    Head(outbox).processedData = req.imageData

\* C11: every 'getEasings' request, whatever was handled before it, is
\* answered with one 'easings' message carrying the ordered list
\* linear, easeIn, easeOut, easeInOut.
C11_EasingsConstant ==
  /\ \A k \in 1..Len(outbox) :
       outbox[k].type = "easings" =>
         outbox[k].easings = <<"linear", "easeIn", "easeOut", "easeInOut">>
  /\ handled.type = "getEasings" => handled = Done("getEasings", 1, "ok")
  /\ req.type = "getEasings" =>
       (Len(outbox) = 1 /\ Head(outbox).type = "easings")

\* C11 witness: a 'getEasings' request has been handled and its answer
\* waits for the caller.
C11_Witness ==
  /\ req.type = "getEasings"
  /\ handled.type = "getEasings"
  /\ outbox # <<>>

\* The rows of the request on which the blur loop runs with a resolved
\* kernel size of at least 1.
ActiveRow(row) == ~kernels[row + 1].nan /\ kernels[row + 1].n >= 1

\* The weights as applied to the samples: each weight over weightSum.
appliedWeights(ks, u_blurType) ==
  LET w == weights(ks, u_blurType)
      ws == weightSum(ks, u_blurType)
  IN [i \in loopLo(ks)..loopHi(ks) |-> Rat(w[i], ws)]

\* C12: on every row with active blur, for the linear and the gaussian
\* kernel, the applied weights (weight / weightSum) have a positive divisor
\* and add up to 1; the linear kernel's applied weights are all equal and
\* the gaussian's are symmetric about offset 0.
C12_WeightsNormalized ==
  AfterPass1 =>
    \A row \in Rows : ActiveRow(row) =>
      LET ks == kernels[row + 1].n
          a == appliedWeights(ks, uBlurType(req.config))
          num == [i \in DOMAIN a |-> a[i].n]
      IN /\ \A i \in DOMAIN a : a[i].d > 0 /\ a[i].n >= 0
         /\ SumOver(num, loopLo(ks), loopHi(ks)) = a[0].d
         /\ \A i \in DOMAIN a : a[i] = a[-i]
         /\ uBlurType(req.config) = 0 => \A i \in DOMAIN a : a[i] = a[0]

\* C12 witness: a gaussian row of kernel size 3 has been blurred with
\* weights that differ between the centre and its neighbours.
C12_Witness ==
  /\ AfterPass1
  /\ req.config.blurType = "gaussian"
  /\ \E row \in Rows :
       /\ ActiveRow(row)
       /\ kernels[row + 1].n = 3
       /\ weights(3, 1)[1] < weights(3, 1)[0]
  /\ tempTex # originalTex

\* C14: in every state the settings controls can reach, a gaussian blurType
\* goes with an odd maxKernelSize (stated for the values that are numbers).
C14_GaussianKernelOdd ==
  (blurConfig.blurType = "gaussian" /\ ~blurConfig.maxKernelSize.nan) =>
    blurConfig.maxKernelSize.v % 2 = 1

\* C15: when processBlurGPU throws, the handler posts nothing for that
\* request: no 'processed' message reaches the caller.
C15_NoProcessedOnFailure ==
  handled.outcome = "threw" =>
    /\ handled = Done("process", 0, "threw")
    /\ pc = "idle"
    /\ \A k \in 1..Len(outbox) : outbox[k].type # "processed"

\* C15 witness: a 'process' request failed for want of a WebGL2 context and
\* the handler has returned.
C15_Witness ==
  /\ handled.type = "process"
  /\ handled.outcome = "threw"
  /\ inbox = <<>>
  /\ outbox = <<>>

\* Some outcome of the shader's unspecified operations makes `out` the
\* result of drawing `input` with the request's config in `direction`.
DrawnFrom(out, input, direction) ==
  \E divZero \in DivOutcomes(req), nanByte \in NaNWrites(req) :
    out = renderPass(input, direction, req.width, req.height, req.config,
                     divZero, nanByte)

\* C16: the passes of a request are strictly ordered over three buffers:
\* before pass 1 the intermediate and final textures are empty; pass 1 draws
\* the whole intermediate texture from the source alone and leaves the final
\* texture empty; pass 2 draws the final texture from the intermediate
\* texture alone; neither pass changes the texture it reads.
C16_PassesOrdered ==
  /\ pc \in {"pass1", "pass2", "read"} => originalTex = req.imageData
  /\ pc = "pass1" =>
       /\ tempTex = createEmptyTexture(req.width, req.height)
       /\ finalTex = createEmptyTexture(req.width, req.height)
  /\ pc = "pass2" =>
       /\ DrawnFrom(tempTex, originalTex, <<1, 0>>)
       /\ finalTex = createEmptyTexture(req.width, req.height)
  /\ pc = "read" =>
       /\ DrawnFrom(tempTex, originalTex, <<1, 0>>)
       /\ DrawnFrom(finalTex, tempTex, <<0, 1>>)

\* C16 witness: both passes are drawn and each changed the image, so source,
\* intermediate and final texture hold three different images.
C16_Witness ==
  /\ pc = "read"
  /\ tempTex # originalTex
  /\ finalTex # tempTex
  /\ finalTex # originalTex

\* The handler has finished the request req while the newer request for the
\* same image, with another config, waits in inbox.
Superseded ==
  /\ pc = "idle"
  /\ req.type = "process"
  /\ inbox # <<>>
  /\ Head(inbox).type = "process"
  /\ Head(inbox).config # req.config

\* C17: the worker never cancels or drops an accepted 'process' request.
\* While a newer request waits, the request in progress keeps its textures;
\* when the handler has finished it, exactly one 'processed' message has been
\* posted for it, carrying the two-pass result of its own (superseded)
\* config; and a 'processed' message has no field besides type and
\* processedData.
C17_NeverCancels ==
  /\ (Busy /\ inbox # <<>>) =>
       (req.config.enabled /\ originalTex = req.imageData)
  /\ Superseded =>
       /\ handled = Done("process", 1, "ok")
       /\ outbox # <<>>
       /\ outbox[Len(outbox)].type = "processed"
       /\ \E divZero \in DivOutcomes(req), nanByte \in NaNWrites(req) :
            LET temp == renderPass(req.imageData, <<1, 0>>, req.width,
                                   req.height, req.config, divZero, nanByte)
                                \o <<>>
            IN DrawnFrom(outbox[Len(outbox)].processedData, temp, <<0, 1>>)
  /\ \A k \in 1..Len(outbox) :
       outbox[k].type = "processed" =>
         DOMAIN outbox[k] = {"type", "processedData"}

\* C17 witness: the blurred result of a superseded request has been posted
\* while the request that replaces it still waits to be handled.
C17_Witness ==
  /\ Superseded
  /\ outbox # <<>>
  /\ outbox[Len(outbox)].type = "processed"
  /\ outbox[Len(outbox)].processedData # req.imageData
  /\ ~Head(inbox).config.enabled

\* A float that is a number in [0, 1].
InUnit(x) == ~x.nan /\ 0 <= x.n /\ x.n <= x.d

\* C13: for each of the four easing functions and every input in [0, 1],
\* the value easingFunc returns lies in [0, 1].
C13_EasedInUnit ==
  \A k \in 1..Len(scanlines) :
    (scanlines[k].inBand /\ InUnit(scanlines[k].rangeProgress)) =>
      InUnit(scanlines[k].easedProgress)

\* C18: for every valid config with startPoint < endPoint and every easing,
\* the resolved kernel size does not decrease from a row to a row below it
\* (stated for odd maxKernelSize, for which odd-forcing inside the band
\* never passes the size used above endPoint).
C18_KernelMonotone ==
  (/\ ValidConfig(viewport.config)
   /\ viewport.config.startPoint < viewport.config.endPoint
   /\ viewport.config.maxKernelSize % 2 = 1) =>
    \A k1, k2 \in 1..Len(scanlines) :
      k1 <= k2 => scanlines[k1].kernelSize.n <= scanlines[k2].kernelSize.n

\* C19: for every valid config the rows with startPoint <= y <= endPoint
\* resolve to a kernel size of at least 1, so only rows with y < startPoint
\* take the passthrough branch (stated for startPoint < endPoint, where
\* rangeProgress is a number).
C19_ActiveInsideBand ==
  (/\ ValidConfig(viewport.config)
   /\ viewport.config.startPoint < viewport.config.endPoint) =>
    \A k \in 1..Len(scanlines) :
      scanlines[k].inBand => scanlines[k].kernelSize.n >= 1

\* C20: for every valid config and every row the resolved kernel size does
\* not exceed maxKernelSize (stated for startPoint < endPoint, where
\* rangeProgress is a number).
C20_KernelAtMostMax ==
  (/\ ValidConfig(viewport.config)
   /\ viewport.config.startPoint < viewport.config.endPoint) =>
    \A k \in 1..Len(scanlines) :
      scanlines[k].kernelSize.n <= viewport.config.maxKernelSize

\* The row of scanlines[k] has y = startPoint = endPoint.
OnDegenerateBand(k) ==
  DivZeroRow(k - 1, viewport.height, viewport.config)

\* C21: on a row with y = startPoint = endPoint the resolver does not divide
\* by zero: ramp progress is 1 and the kernel size is maxKernelSize forced
\* odd.
C21_DegenerateBandUsesOne ==
  ValidConfig(viewport.config) =>
    \A k \in 1..Len(scanlines) : OnDegenerateBand(k) =>
      /\ scanlines[k].rangeProgress = Rat(1, 1)
      /\ scanlines[k].kernelSize =
           Rat(OddUp(viewport.config.maxKernelSize), 1)

\* C22: in every state the settings controls can reach, the stored
\* maxKernelSize is an integer in 1..499.
C22_KernelSizeInRange ==
  /\ ~blurConfig.maxKernelSize.nan
  /\ blurConfig.maxKernelSize.v \in SliderMin..SliderMax

\* C23: in every state the settings controls can reach from the initial
\* config, enabled is true exactly when blurType is not none.
C23_EnabledIffBlurType ==
  blurConfig.enabled <=> (blurConfig.blurType # "none")

\* C23 witness: the tab has been switched to "No blur" after other settings
\* were changed, and the config is disabled.
C23_Witness ==
  /\ blurConfig.blurType = "none"
  /\ ~blurConfig.enabled
  /\ blurConfig.maxKernelSize # InitialConfig.maxKernelSize
  /\ blurConfig.easing # InitialConfig.easing

\* C24: for every maxKernelSize in 1..499 and every row whose kernel size is
\* a number of at least 1, effectiveRadius is int((kernelSize - 1) / 2), it
\* is at most MAX_RADIUS, and the loop samples every offset from
\* -effectiveRadius to effectiveRadius.
C24_RadiusWithinLoop ==
  viewport.config.maxKernelSize \in SliderMin..SliderMax =>
    \A k \in 1..Len(scanlines) :
      LET s == scanlines[k]
      IN (~s.kernelSize.nan /\ s.kernelSize.n >= 1) =>
           /\ s.effectiveRadius = (s.kernelSize.n - 1) \div 2
           /\ s.effectiveRadius <= MAX_RADIUS
           /\ s.loop = <<-s.effectiveRadius, s.effectiveRadius>>

\* C24 witness: a row resolved to the largest kernel the slider's range can
\* give, 499 or 500, with radius 249.
C24_Witness ==
  /\ viewport.config.maxKernelSize \in SliderMin..SliderMax
  /\ \E k \in 1..Len(scanlines) :
       /\ scanlines[k].kernelSize.n >= SliderMax
       /\ scanlines[k].effectiveRadius = 249
       /\ scanlines[k].loop = <<-249, 249>>

====
